---- MODULE Spec2Model ----
(***************************************************************************)
(* TRINITY BEAT: the gameplay core of App (src/components/                 *)
(* FloatingTextManager.tsx, lines 89-1175) and of AudioService             *)
(* (src/unnamed/part_000).                                                 *)
(*                                                                         *)
(* Units.  Every time is an integer number of TICKS of 0.05 s, so that     *)
(* HIT_WINDOW (0.15 s) is 3, PERFECT_WINDOW (0.05 s) is 1, the play delay  *)
(* (3.0 s) is 60 and the finish tail (2 s) is 40.  Heat is an integer      *)
(* number of 0.05 heat points, so that the decay (0.15) is 3, the rewards  *)
(* (5, 10) are 100 and 200, the miss penalty (15) is 300 and the cap (100) *)
(* is 2000.  Score and combo are the program's integers.                   *)
(*                                                                         *)
(* React.  gameState is the value the rendered closures read (the key      *)
(* handler of handleLaneInput, the screens' buttons).  A setGameState      *)
(* call made inside a React click handler is rendered before the handler's *)
(* event ends; one made from a requestAnimationFrame callback is queued    *)
(* (pendingGameState) and rendered later by Render, which also runs the    *)
(* main-loop effect.  Canvas drawing, particles, shake, lasers and the     *)
(* countdown text are presentation only and are not modelled; neither are  *)
(* the demo track and the beat detection, which only produce a chart text. *)
(***************************************************************************)
EXTENDS Integers, Sequences, FiniteSets, TLC

\* ---------------------------------------------------------------- constants
HIT_WINDOW == 3
PERFECT_WINDOW == 1
LANES == 3
PLAY_DELAY == 60
BLOOM_COMBO == 30
FINISH_TAIL == 40
HEAT_DECAY == 3
HEAT_MAX == 2000
HEAT_PERFECT == 200
HEAT_GREAT == 100
HEAT_MISS == 300
SCORE_PERFECT == 300
SCORE_GREAT == 100
HEAT_SYNC_PERIOD == 4

\* ------------------------------------------------------------------- bounds
\* Duration of the audio file that is uploaded, in time units.
SongDuration == 2
\* The clock is sampled at -PLAY_DELAY, at -1..MaxEarly and around the finish.
MaxEarly == 6
\* Samples taken after duration + FINISH_TAIL.
MaxLate == 3
\* Frames run per play-through.
MaxFrames == 3
\* Pending lane-release timeouts, over all lanes.
MaxTimers == 1
\* Notes of the dense chart that share one time (centre lane).
DenseLen == 11
\* Largest combo the tier is computed from.
MaxCombo == 51

VARIABLES
    gameState,          \* useState GameState, as read by the rendered closures
    pendingGameState,   \* a queued setGameState value, or "NONE"
    rawBeatsInput,      \* the chart text of the setup screen
    beatsRef,           \* the chart: sequence of Beat records
    scoreRef, comboRef, heatRef,
    score, combo, heat, tier,       \* UI state synced from the refs
    activeLanesRef,     \* lane -> BOOLEAN
    laneTimers,         \* lane -> number of pending release timeouts
    frameRequested,     \* a requestAnimationFrame(loop) callback is pending
    buffer,             \* AudioService.buffer: loaded or not, and its duration
    source,             \* AudioService.source is not null
    rating,             \* the rating of the last floating text, or "NONE"
    twin,               \* a second run of the same song, for comparisons
    clock,              \* ctx.currentTime - startTime
    frames              \* frames run since the last start or restart

vars == <<gameState, pendingGameState, rawBeatsInput, beatsRef, scoreRef,
          comboRef, heatRef, score, combo, heat, tier, activeLanesRef,
          laneTimers, frameRequested, buffer, source, rating, twin, clock,
          frames>>

\* The variables of the program itself.
gameVars ==
    <<gameState, pendingGameState, rawBeatsInput, beatsRef, scoreRef,
      comboRef, heatRef, score, combo, heat, tier, activeLanesRef,
      laneTimers, frameRequested, buffer, source, rating, clock, frames>>

GameState == {"SETUP", "PLAYING", "FINISHED"}

\* The second run while no comparison is made: it has not started.
TwinOff ==
    [gameState |-> "SETUP", pendingGameState |-> "NONE", beats |-> <<>>,
     score |-> 0, combo |-> 0, heat |-> 0, rating |-> "NONE",
     frameRequested |-> FALSE, frames |-> 0]

Lanes == 0 .. (LANES - 1)
NoLane == -1

Max(a, b) == IF a > b THEN a ELSE b
Min(a, b) == IF a < b THEN a ELSE b
Abs(a) == IF a < 0 THEN -a ELSE a

\* ------------------------------------------------------------ AudioService
getCurrentTime == IF ~source THEN 0 ELSE clock

getDuration == IF buffer.loaded THEN buffer.duration ELSE 0

isReady == buffer.loaded

\* ------------------------------------------------------------- chart input
\* An entry of the JSON array: a bare number (bare = TRUE) or an object with
\* a time and an optional lane (NoLane when absent).
Entry(t, l) == [time |-> t, lane |-> l, bare |-> FALSE]
Bare(t) == [time |-> t, lane |-> NoLane, bare |-> TRUE]

\* kind: "empty" (no text), "invalid" (JSON.parse throws), "object" (parses
\* to something that is not an array), "array".
Text(k, items) == [kind |-> k, items |-> items]

ParseBeat(b, i) ==
    [id |-> i,
     time |-> b.time,
     lane |-> IF b.bare THEN 1 ELSE IF b.lane = NoLane THEN 1 ELSE b.lane,
     hit |-> FALSE,
     missed |-> FALSE]

ParsedBeats(beatData) == [i \in 1 .. Len(beatData) |-> ParseBeat(beatData[i], i - 1)]

\* An insertion that puts a note before the notes of equal time.
InsertByTime_Unstable(s, x) ==
    LET k == Cardinality({i \in 1 .. Len(s) : s[i].time < x.time})
    IN  SubSeq(s, 1, k) \o <<x>> \o SubSeq(s, k + 1, Len(s))

\* Array.prototype.sort with (a, b) => a.time - b.time: a stable sort.
InsertByTime(s, x) ==
    LET k == Cardinality({i \in 1 .. Len(s) : s[i].time <= x.time})
    IN  SubSeq(s, 1, k) \o <<x>> \o SubSeq(s, k + 1, Len(s))

RECURSIVE SortByTime(_)
SortByTime(s) ==
    IF s = <<>> THEN <<>>
    ELSE InsertByTime(SortByTime(SubSeq(s, 1, Len(s) - 1)), s[Len(s)])

\* The instants at which the audio clock is sampled: the start of the
\* countdown, the first notes, and the end of the song.
ClockTimes ==
    {-PLAY_DELAY} \cup (-1 .. MaxEarly)
        \cup ((getDuration + FINISH_TAIL - 1) .. (getDuration + FINISH_TAIL + MaxLate))

Durations == {SongDuration}

\* A note that lies past the end of the song.
LateTime == SongDuration + FINISH_TAIL + 2

\* The chart texts typed into the setup screen.
UnsortedChart ==
    <<Entry(3, 1), Entry(1, 1), Entry(1, 0), Bare(1)>>

\* A note whose window ends one time unit before duration + FINISH_TAIL.
EdgeTime == SongDuration + FINISH_TAIL - HIT_WINDOW - 1

LateChart ==
    <<Entry(LateTime, 1), Entry(EdgeTime, 5), Entry(5, NoLane)>>

DenseChart == [i \in 1 .. DenseLen |-> Bare(2)] \o <<Entry(4, 1)>>

RawInputs ==
    {Text("empty", <<>>), Text("invalid", <<>>), Text("object", <<>>),
     Text("array", <<>>), Text("array", UnsortedChart), Text("array", LateChart)}

\* ------------------------------------------------------------------- Init
Init ==
    /\ gameState = "SETUP"
    /\ pendingGameState = "NONE"
    /\ rawBeatsInput = Text("empty", <<>>)
    /\ beatsRef = <<>>
    /\ scoreRef = 0
    /\ comboRef = 0
    /\ heatRef = 0
    /\ score = 0
    /\ combo = 0
    /\ heat = 0
    /\ tier = 0
    /\ activeLanesRef = [l \in Lanes |-> FALSE]
    /\ laneTimers = [l \in Lanes |-> 0]
    /\ frameRequested = FALSE
    /\ buffer = [loaded |-> FALSE, duration |-> 0]
    /\ source = FALSE
    /\ rating = "NONE"
    /\ twin = TwinOff
    /\ clock = 0
    /\ frames = 0

\* ------------------------------------------------------------ setup screen
\* handleFileUpload: audioService.loadFile decodes a file of duration d.
LoadFile(d) ==
    /\ gameState = "SETUP"
    /\ buffer' = [loaded |-> TRUE, duration |-> d]
    /\ UNCHANGED <<gameState, pendingGameState, rawBeatsInput, beatsRef,
                   scoreRef, comboRef, heatRef, score, combo, heat, tier,
                   activeLanesRef, laneTimers, frameRequested, source, clock,
                   frames, rating>>

\* The textarea's onChange.
SetRawBeatsInput(text) ==
    /\ gameState = "SETUP"
    /\ rawBeatsInput' = text
    /\ UNCHANGED <<gameState, pendingGameState, beatsRef, scoreRef, comboRef,
                   heatRef, score, combo, heat, tier, activeLanesRef,
                   laneTimers, frameRequested, buffer, source, clock, frames,
                   rating>>

\* startGame without the Array.isArray check.
StartFails_NoArrayCheck ==
    \/ ~isReady
    \/ rawBeatsInput.kind \in {"empty", "invalid"}

\* startGame() does not reach setGameState: an alert and nothing else.
StartFails ==
    \/ ~isReady
    \/ rawBeatsInput.kind \in {"empty", "invalid", "object"}

\* startGame(), from the start button of the setup screen.
StartGame ==
    /\ gameState = "SETUP"
    /\ IF StartFails
       THEN UNCHANGED vars
       ELSE /\ beatsRef' = SortByTime(ParsedBeats(rawBeatsInput.items))
            /\ scoreRef' = 0
            /\ comboRef' = 0
            /\ heatRef' = 0
            /\ activeLanesRef' = [l \in Lanes |-> FALSE]
            /\ score' = 0
            /\ combo' = 0
            /\ heat' = 0
            /\ tier' = 0
            /\ rating' = "NONE"
            /\ gameState' = "PLAYING"
            /\ pendingGameState' = "NONE"
            \* audioService.play(3.0)
            /\ source' = TRUE
            /\ clock' = -PLAY_DELAY
            \* the main-loop effect of the PLAYING render
            /\ frameRequested' = TRUE
            /\ frames' = 0
            /\ UNCHANGED <<rawBeatsInput, laneTimers, buffer>>

\* ------------------------------------------------------------- the clock
\* ctx.currentTime advances while a source exists.
AdvanceClock(t) ==
    /\ source
    /\ t \in ClockTimes
    /\ t > clock
    /\ clock' = t
    /\ UNCHANGED <<gameState, pendingGameState, rawBeatsInput, beatsRef,
                   scoreRef, comboRef, heatRef, score, combo, heat, tier,
                   activeLanesRef, laneTimers, frameRequested, buffer, source,
                   frames, rating>>

\* ------------------------------------------------------------ lane input
\* Hittable with the window's bound included.
Hittable_Inclusive(b, laneIndex, currentTime) ==
    /\ ~b.hit
    /\ ~b.missed
    /\ b.lane = laneIndex
    /\ Abs(b.time - currentTime) <= HIT_WINDOW

\* The predicate of beatsRef.current.find in handleLaneInput.
Hittable(b, laneIndex, currentTime) ==
    /\ ~b.hit
    /\ ~b.missed
    /\ b.lane = laneIndex
    /\ Abs(b.time - currentTime) < HIT_WINDOW

\* FindHittable choosing the hittable beat nearest to the press.
FindHittable_Closest(beats, laneIndex, currentTime) ==
    LET S == {i \in 1 .. Len(beats) : Hittable(beats[i], laneIndex, currentTime)}
    IN  IF S = {} THEN 0
        ELSE CHOOSE i \in S :
                \A j \in S :
                    \/ Abs(beats[i].time - currentTime) < Abs(beats[j].time - currentTime)
                    \/ /\ Abs(beats[i].time - currentTime) = Abs(beats[j].time - currentTime)
                       /\ i <= j

\* Array.prototype.find: the index of the first hittable beat, 0 for none.
FindHittable(beats, laneIndex, currentTime) ==
    LET S == {i \in 1 .. Len(beats) : Hittable(beats[i], laneIndex, currentTime)}
    IN  IF S = {} THEN 0 ELSE CHOOSE i \in S : \A j \in S : i <= j

\* ScoreAdd with half the reward for a hit that is not perfect.
ScoreAdd_Half(diff) ==
    IF diff < PERFECT_WINDOW THEN SCORE_PERFECT ELSE SCORE_GREAT \div 2

\* ScoreAdd graded by the distance instead of two fixed rewards.
ScoreAdd_Graded(diff) ==
    IF diff < HIT_WINDOW THEN SCORE_PERFECT - SCORE_GREAT * diff ELSE SCORE_GREAT

ScoreAdd(diff) == IF diff < PERFECT_WINDOW THEN SCORE_PERFECT ELSE SCORE_GREAT

HeatAdd(diff) == IF diff < PERFECT_WINDOW THEN HEAT_PERFECT ELSE HEAT_GREAT

\* HeatAfterHit without the cap.
HeatAfterHit_NoCap(h, diff) == h + HeatAdd(diff)

HeatAfterHit(h, diff) == Min(HEAT_MAX, h + HeatAdd(diff))

\* Rating with BLOOM from a combo of 30 on.
Rating_AtThirty(diff, c, draw) ==
    IF diff < PERFECT_WINDOW
    THEN IF c >= BLOOM_COMBO /\ draw THEN "BLOOM" ELSE "PERFECT"
    ELSE "GREAT"

\* The rating of a hit; draw is the outcome of Math.random() > 0.8.
Rating(diff, c, draw) ==
    IF diff < PERFECT_WINDOW
    THEN IF c > BLOOM_COMBO /\ draw THEN "BLOOM" ELSE "PERFECT"
    ELSE "GREAT"

TotalTimers == laneTimers[0] + laneTimers[1] + laneTimers[2]

\* handleLaneInput(laneIndex), from the window's keydown listener.
HandleLaneInput(laneIndex) ==
    LET currentTime == getCurrentTime
        k == FindHittable(beatsRef, laneIndex, currentTime)
        diff == Abs(beatsRef[k].time - currentTime)
    IN  IF gameState # "PLAYING" \/ currentTime < 0
        THEN UNCHANGED gameVars
        ELSE /\ activeLanesRef' = [activeLanesRef EXCEPT ![laneIndex] = TRUE]
             /\ laneTimers' = [laneTimers EXCEPT ![laneIndex] = @ + 1]
             /\ IF k = 0
                THEN UNCHANGED <<beatsRef, scoreRef, comboRef, heatRef, score,
                                 combo, heat, rating>>
                ELSE /\ beatsRef' = [beatsRef EXCEPT ![k].hit = TRUE]
                     /\ \E draw \in BOOLEAN :
                           rating' = Rating(diff, comboRef, draw)
                     /\ scoreRef' = scoreRef + ScoreAdd(diff)
                     /\ comboRef' = comboRef + 1
                     /\ heatRef' = HeatAfterHit(heatRef, diff)
                     /\ score' = scoreRef'
                     /\ combo' = comboRef'
                     /\ heat' = heatRef'
             /\ UNCHANGED <<gameState, pendingGameState, rawBeatsInput, tier,
                            frameRequested, buffer, source, clock, frames>>

\* The setTimeout callback of handleLaneInput.
ReleaseLane(laneIndex) ==
    /\ laneTimers[laneIndex] > 0
    /\ laneTimers' = [laneTimers EXCEPT ![laneIndex] = @ - 1]
    /\ activeLanesRef' = [activeLanesRef EXCEPT ![laneIndex] = FALSE]
    /\ UNCHANGED <<gameState, pendingGameState, rawBeatsInput, beatsRef,
                   scoreRef, comboRef, heatRef, score, combo, heat, tier,
                   frameRequested, buffer, source, clock, frames, rating>>

\* ------------------------------------------------------------- main loop
\* getTierFromRef with the thresholds themselves in the lower tier.
getTierFromRef_Inclusive(c) ==
    IF c <= 10 THEN 0
    ELSE IF c <= 30 THEN 1
    ELSE IF c <= 50 THEN 2
    ELSE 3

getTierFromRef(c) ==
    IF c < 10 THEN 0
    ELSE IF c < 30 THEN 1
    ELSE IF c < 50 THEN 2
    ELSE 3

\* HeatDecay without the floor.
HeatDecay_NoFloor(h) == h - HEAT_DECAY

HeatDecay(h) == Max(0, h - HEAT_DECAY)

\* IsMiss as soon as the note's time has passed.
IsMiss_Early(beat, now) == ~beat.hit /\ ~beat.missed /\ now > beat.time

\* IsMiss that forgets the hit flag.
IsMiss_IgnoreHit(beat, now) == ~beat.missed /\ now > beat.time + HIT_WINDOW

\* IsMiss with the end of the window included.
IsMiss_Inclusive(beat, now) == ~beat.hit /\ ~beat.missed /\ now >= beat.time + HIT_WINDOW

\* The condition of the forEach body of the miss check.
IsMiss(beat, now) == ~beat.hit /\ ~beat.missed /\ now > beat.time + HIT_WINDOW

\* MissPenalty without the floor.
MissPenalty_NoFloor(h) == h - HEAT_MISS

MissPenalty(h) == Max(0, h - HEAT_MISS)

\* The forEach of the miss check, from beat i on: st is the state so far.
RECURSIVE CheckMisses(_, _, _)
CheckMisses(st, i, now) ==
    IF i > Len(st.beats) THEN st
    ELSE IF IsMiss(st.beats[i], now)
         THEN CheckMisses([beats |-> [st.beats EXCEPT ![i].missed = TRUE],
                           combo |-> 0,
                           heat |-> MissPenalty(st.heat),
                           any |-> TRUE], i + 1, now)
         ELSE CheckMisses(st, i + 1, now)

\* IsFinish with the end of the tail included.
IsFinish_Inclusive(now) == now >= getDuration + FINISH_TAIL /\ getDuration > 0

\* The end-of-song test of the loop.
IsFinish(now) == now > getDuration + FINISH_TAIL /\ getDuration > 0

\* Math.floor(now * 60) % 4 === 0, with now * 60 = 3 * (now in time units).
HeatSyncFrame(now) == (3 * now) % HEAT_SYNC_PERIOD = 0

\* loop requesting the next frame after the finishing frame too.
LoopReschedules_Always(finished) == TRUE

\* loop never requesting another frame.
LoopReschedules_Never(finished) == FALSE

\* Whether a run of loop requests the next animation frame: the finishing
\* frame returns before the requestAnimationFrame call at the end of loop.
LoopReschedules(finished) == ~finished

\* One run of loop, the requestAnimationFrame callback.
Loop ==
    /\ frameRequested
    /\ frames' = Min(MaxFrames, frames + 1)
    /\ LET now == getCurrentTime
           decayed == HeatDecay(heatRef)
           synced == IF HeatSyncFrame(now) THEN decayed ELSE heat
           swept == CheckMisses([beats |-> beatsRef, combo |-> comboRef,
                                 heat |-> decayed, any |-> FALSE], 1, now)
       IN  /\ tier' = getTierFromRef(comboRef)
           /\ frameRequested' = LoopReschedules(IsFinish(now))
           /\ IF IsFinish(now)
              THEN /\ pendingGameState' = "FINISHED"
                   /\ heatRef' = decayed
                   /\ heat' = synced
                   /\ UNCHANGED <<beatsRef, comboRef, combo>>
              ELSE /\ IF now > 0
                      THEN /\ beatsRef' = swept.beats
                           /\ comboRef' = swept.combo
                           /\ heatRef' = swept.heat
                           /\ combo' = IF swept.any THEN 0 ELSE combo
                           /\ heat' = IF swept.any THEN swept.heat ELSE synced
                      ELSE /\ heatRef' = decayed
                           /\ heat' = synced
                           /\ UNCHANGED <<beatsRef, comboRef, combo>>
                   /\ UNCHANGED pendingGameState
    /\ UNCHANGED <<gameState, rawBeatsInput, scoreRef, score, activeLanesRef,
                   laneTimers, buffer, source, clock, rating>>

\* React renders the queued game state and runs the main-loop effect.
Render ==
    /\ pendingGameState # "NONE"
    /\ gameState' = pendingGameState
    /\ pendingGameState' = "NONE"
    /\ IF pendingGameState = gameState
       THEN UNCHANGED <<frameRequested, source>>
       ELSE IF pendingGameState = "PLAYING"
            THEN frameRequested' = TRUE /\ UNCHANGED source
            ELSE frameRequested' = FALSE /\ source' = FALSE
    /\ UNCHANGED <<rawBeatsInput, beatsRef, scoreRef, comboRef, heatRef,
                   score, combo, heat, tier, activeLanesRef, laneTimers,
                   buffer, clock, frames, rating>>

\* --------------------------------------------------------- finished screen
\* ToSetup offered during play as well.
ToSetup_FromPlaying ==
    /\ gameState \in {"PLAYING", "FINISHED"}
    /\ gameState' = "SETUP"
    /\ frameRequested' = FALSE
    /\ source' = FALSE
    /\ UNCHANGED <<pendingGameState, rawBeatsInput, beatsRef, scoreRef,
                   comboRef, heatRef, score, combo, heat, tier,
                   activeLanesRef, laneTimers, buffer, clock, frames, rating>>

\* The main-menu button.
ToSetup ==
    /\ gameState = "FINISHED"
    /\ gameState' = "SETUP"
    /\ frameRequested' = FALSE
    /\ source' = FALSE
    /\ UNCHANGED <<pendingGameState, rawBeatsInput, beatsRef, scoreRef,
                   comboRef, heatRef, score, combo, heat, tier,
                   activeLanesRef, laneTimers, buffer, clock, frames, rating>>

\* The reset of one note forgetting the missed flag.
ResetBeat_HitOnly(b) == [b EXCEPT !.hit = FALSE]

\* The reset of one note by the replay button.
ResetBeat(b) == [b EXCEPT !.hit = FALSE, !.missed = FALSE]

\* The replay button.
Restart ==
    /\ gameState = "FINISHED"
    /\ gameState' = "PLAYING"
    /\ score' = 0
    /\ combo' = 0
    /\ heat' = 0
    /\ source' = TRUE
    /\ clock' = -PLAY_DELAY
    /\ beatsRef' = [i \in 1 .. Len(beatsRef) |-> ResetBeat(beatsRef[i])]
    /\ comboRef' = 0
    /\ scoreRef' = 0
    /\ heatRef' = 0
    /\ frameRequested' = TRUE
    /\ frames' = 0
    /\ UNCHANGED <<pendingGameState, rawBeatsInput, tier, activeLanesRef,
                   laneTimers, buffer, rating>>

\* ---------------------------------------------------------- a second run
\* The handlers again, as functions of the state of a second run of the
\* same song: run holds that run's game state, gameState and frame request.

\* The state of a run right after a successful start with chart items.
StartedRun(items) ==
    [gameState |-> "PLAYING", pendingGameState |-> "NONE",
     beats |-> SortByTime(ParsedBeats(items)),
     score |-> 0, combo |-> 0, heat |-> 0, rating |-> "NONE",
     frameRequested |-> TRUE, frames |-> 0]

\* The phase the run has set.
RunPhase(run) ==
    IF run.pendingGameState # "NONE" THEN run.pendingGameState
    ELSE run.gameState

\* handleLaneInput(laneIndex) in the run, at clock currentTime.
PressRun(run, laneIndex, currentTime, draw) ==
    LET k == FindHittable(run.beats, laneIndex, currentTime)
        diff == Abs(run.beats[k].time - currentTime)
    IN  IF run.gameState # "PLAYING" \/ currentTime < 0 \/ k = 0
        THEN run
        ELSE [run EXCEPT !.beats[k].hit = TRUE,
                         !.score = @ + ScoreAdd(diff),
                         !.combo = @ + 1,
                         !.heat = HeatAfterHit(@, diff),
                         !.rating = Rating(diff, run.combo, draw)]

\* One run of loop in the run, at clock now.
TickRun(run, now) ==
    LET decayed == HeatDecay(run.heat)
        swept == CheckMisses([beats |-> run.beats, combo |-> run.combo,
                              heat |-> decayed, any |-> FALSE], 1, now)
        ticked == [run EXCEPT !.frames = @ + 1,
                              !.frameRequested = LoopReschedules(IsFinish(now))]
    IN  IF IsFinish(now)
        THEN [ticked EXCEPT !.pendingGameState = "FINISHED", !.heat = decayed]
        ELSE IF now > 0
             THEN [ticked EXCEPT !.beats = swept.beats,
                                 !.combo = swept.combo,
                                 !.heat = swept.heat]
             ELSE [ticked EXCEPT !.heat = decayed]

\* React renders the run's queued game state.
RenderRun(run) ==
    [run EXCEPT !.gameState = run.pendingGameState,
                !.pendingGameState = "NONE",
                !.frameRequested =
                    IF run.pendingGameState = run.gameState THEN @
                    ELSE run.pendingGameState = "PLAYING"]

\* ------------------------------------------------------- specifications
Next ==
    \/ (\E d \in Durations : LoadFile(d)) /\ UNCHANGED twin
    \/ (\E text \in RawInputs : SetRawBeatsInput(text)) /\ UNCHANGED twin
    \/ StartGame /\ UNCHANGED twin
    \/ (\E t \in ClockTimes : AdvanceClock(t)) /\ UNCHANGED twin
    \/ /\ TotalTimers < MaxTimers
       /\ \E laneIndex \in Lanes : HandleLaneInput(laneIndex)
       /\ UNCHANGED twin
    \/ (\E laneIndex \in Lanes : ReleaseLane(laneIndex)) /\ UNCHANGED twin
    \/ frames < MaxFrames /\ Loop /\ UNCHANGED twin
    \/ Render /\ UNCHANGED twin
    \/ ToSetup /\ UNCHANGED twin
    \/ Restart /\ UNCHANGED twin

Spec == Init /\ [][Next]_vars

\* The same program fed the dense chart only, and keys pressed on its one
\* lane: eleven notes can be hit in a row, which takes heat to its cap.
DenseInputs == {Text("array", DenseChart)}

NextDense ==
    \/ (\E d \in Durations : LoadFile(d)) /\ UNCHANGED twin
    \/ (\E text \in DenseInputs : SetRawBeatsInput(text)) /\ UNCHANGED twin
    \/ StartGame /\ UNCHANGED twin
    \/ (\E t \in ClockTimes : AdvanceClock(t)) /\ UNCHANGED twin
    \/ TotalTimers < MaxTimers /\ HandleLaneInput(1) /\ UNCHANGED twin
    \/ ReleaseLane(1) /\ UNCHANGED twin
    \/ frames < MaxFrames /\ Loop /\ UNCHANGED twin
    \/ Render /\ UNCHANGED twin
    \/ ToSetup /\ UNCHANGED twin
    \/ Restart /\ UNCHANGED twin

SpecDense == Init /\ [][NextDense]_vars

\* The tier: the game in mid-song on a chart of MaxCombo centre notes at time
\* 2, c of them hit perfectly at clock 2 with no frame run in between and
\* every release timeout expired.
LongChart == [i \in 1 .. MaxCombo |-> Bare(2)]

InitTier ==
    \E c \in 0 .. MaxCombo :
        /\ gameState = "PLAYING"
        /\ pendingGameState = "NONE"
        /\ rawBeatsInput = Text("array", LongChart)
        /\ beatsRef = [i \in 1 .. MaxCombo |->
                          [ParsedBeats(LongChart)[i] EXCEPT !.hit = (i <= c)]]
        /\ scoreRef = SCORE_PERFECT * c
        /\ comboRef = c
        /\ heatRef = Min(HEAT_MAX, HEAT_PERFECT * c)
        /\ score = scoreRef
        /\ combo = comboRef
        /\ heat = heatRef
        /\ tier = 0
        /\ activeLanesRef = [l \in Lanes |-> FALSE]
        /\ laneTimers = [l \in Lanes |-> 0]
        /\ frameRequested = TRUE
        /\ buffer = [loaded |-> TRUE, duration |-> SongDuration]
        /\ source = TRUE
        /\ rating = IF c = 0 THEN "NONE" ELSE "PERFECT"
        /\ twin = TwinOff
        /\ clock = 2
        /\ frames = 0

NextTier ==
    \/ (\E t \in ClockTimes : AdvanceClock(t)) /\ UNCHANGED twin
    \/ frames < MaxFrames /\ Loop /\ UNCHANGED twin

SpecTier == InitTier /\ [][NextTier]_vars

\* Two runs of one song with the same presses and their own frames.  The
\* runs share the audio clock, so neither is rendered after its last frame
\* (the render stops the audio), and presses are made while both play.
TwinChart == <<Entry(4, 1), Bare(1)>>

\* The state right after a successful start with chart items, in both runs.
StartedWith(items) ==
    /\ gameState = "PLAYING"
    /\ pendingGameState = "NONE"
    /\ rawBeatsInput = Text("array", items)
    /\ beatsRef = SortByTime(ParsedBeats(items))
    /\ scoreRef = 0
    /\ comboRef = 0
    /\ heatRef = 0
    /\ score = 0
    /\ combo = 0
    /\ heat = 0
    /\ tier = 0
    /\ activeLanesRef = [l \in Lanes |-> FALSE]
    /\ laneTimers = [l \in Lanes |-> 0]
    /\ frameRequested = TRUE
    /\ buffer = [loaded |-> TRUE, duration |-> SongDuration]
    /\ source = TRUE
    /\ rating = "NONE"
    /\ twin = StartedRun(items)
    /\ clock = -PLAY_DELAY
    /\ frames = 0

InitTwin == StartedWith(TwinChart)

\* The audio clock of the second run: its own source, which the render of
\* the first run does not stop.
TwinTime == clock

\* One key press, delivered to both runs at the same clock time.
PressBoth(laneIndex) ==
    /\ HandleLaneInput(laneIndex)
    /\ \E draw \in BOOLEAN :
          twin' = PressRun(twin, laneIndex, TwinTime, draw)

\* A frame of the second run alone.
TwinLoop ==
    /\ twin.frameRequested
    /\ twin.frames < MaxFrames
    /\ twin' = TickRun(twin, TwinTime)
    /\ UNCHANGED gameVars

NextTwin ==
    \/ (\E t \in ClockTimes : AdvanceClock(t)) /\ UNCHANGED twin
    \/ /\ gameState = "PLAYING" /\ pendingGameState = "NONE"
       /\ RunPhase(twin) = "PLAYING"
       /\ TotalTimers < MaxTimers
       /\ PressBoth(1)
    \/ ReleaseLane(1) /\ UNCHANGED twin
    \/ frames < MaxFrames /\ Loop /\ UNCHANGED twin
    \/ TwinLoop

SpecTwin == InitTwin /\ [][NextTwin]_vars

\* Two runs of one song, mid-song after c perfect hits, with the same
\* presses and the same frames: only the random draws of the two differ.
BloomLen == 34

BloomChart == [i \in 1 .. BloomLen |-> Bare(2)]

InitBloom ==
    \E c \in (BLOOM_COMBO - 1) .. BloomLen :
        /\ gameState = "PLAYING"
        /\ pendingGameState = "NONE"
        /\ rawBeatsInput = Text("array", BloomChart)
        /\ beatsRef = [i \in 1 .. BloomLen |->
                          [ParsedBeats(BloomChart)[i] EXCEPT !.hit = (i <= c)]]
        /\ scoreRef = SCORE_PERFECT * c
        /\ comboRef = c
        /\ heatRef = Min(HEAT_MAX, HEAT_PERFECT * c)
        /\ score = scoreRef
        /\ combo = comboRef
        /\ heat = heatRef
        /\ tier = 0
        /\ activeLanesRef = [l \in Lanes |-> FALSE]
        /\ laneTimers = [l \in Lanes |-> 0]
        /\ frameRequested = TRUE
        /\ buffer = [loaded |-> TRUE, duration |-> SongDuration]
        /\ source = TRUE
        /\ rating = "PERFECT"
        /\ twin = [gameState |-> "PLAYING", pendingGameState |-> "NONE",
                   beats |-> beatsRef, score |-> scoreRef, combo |-> comboRef,
                   heat |-> heatRef, rating |-> "PERFECT",
                   frameRequested |-> TRUE, frames |-> 0]
        /\ clock = 2
        /\ frames = 0

NextBloom ==
    \/ (\E t \in ClockTimes : AdvanceClock(t)) /\ UNCHANGED twin
    \/ TotalTimers < MaxTimers /\ PressBoth(1)
    \/ ReleaseLane(1) /\ UNCHANGED twin
    \/ frames < MaxFrames /\ Loop /\ twin' = TickRun(twin, TwinTime)
    \/ Render /\ twin' = RenderRun(twin)

SpecBloom == InitBloom /\ [][NextBloom]_vars

\* Two runs as in SpecTwin, with a note after the end of the song, each
\* run rendered after its last frame, and presses at any moment.
LateTwinChart == <<Entry(LateTime, 1), Bare(1)>>

InitTwinLate == StartedWith(LateTwinChart)

TwinRender ==
    /\ twin.pendingGameState # "NONE"
    /\ twin' = RenderRun(twin)
    /\ UNCHANGED gameVars

NextTwinLate ==
    \/ (\E t \in ClockTimes : AdvanceClock(t)) /\ UNCHANGED twin
    \/ TotalTimers < MaxTimers /\ PressBoth(1)
    \/ ReleaseLane(1) /\ UNCHANGED twin
    \/ frames < MaxFrames /\ Loop /\ UNCHANGED twin
    \/ TwinLoop
    \/ Render /\ UNCHANGED twin
    \/ TwinRender

SpecTwinLate == InitTwinLate /\ [][NextTwinLate]_vars

\* A step of the audio clock, and a frame, with the second run left alone.
Tick == (\E t \in ClockTimes : AdvanceClock(t)) /\ UNCHANGED twin

Frame == Loop /\ UNCHANGED twin

\* Play with a second press on a lane while the reset of the first press
\* is still pending.
MaxPending == 2

NextTimers ==
    \/ Tick
    \/ laneTimers[1] < MaxPending /\ HandleLaneInput(1) /\ UNCHANGED twin
    \/ ReleaseLane(1) /\ UNCHANGED twin
    \/ frames < MaxFrames /\ Frame

SpecTimers == InitTwin /\ [][NextTimers]_vars

\* The program with frames that go on for ever: the audio clock keeps
\* advancing while a source exists (ctx.currentTime) and the browser runs
\* every requested animation frame.
\* Key presses are left out: they change neither the clock nor the frame
\* request, and with frames without end the heat they add decays through
\* every value.
NextLive ==
    \/ (\E d \in Durations : LoadFile(d)) /\ UNCHANGED twin
    \/ (\E text \in RawInputs : SetRawBeatsInput(text)) /\ UNCHANGED twin
    \/ StartGame /\ UNCHANGED twin
    \/ Tick
    \/ Frame
    \/ Render /\ UNCHANGED twin
    \/ ToSetup /\ UNCHANGED twin
    \/ Restart /\ UNCHANGED twin

SpecLive ==
    /\ Init
    /\ [][NextLive]_vars
    /\ WF_vars(Tick)
    /\ WF_vars(Frame)

\* ------------------------------------------------------------ properties
\* The beats whose hit flag a step sets.
NewlyHit ==
    {i \in 1 .. Len(beatsRef) :
        /\ Len(beatsRef') = Len(beatsRef)
        /\ ~beatsRef[i].hit
        /\ beatsRef'[i].hit}

\* The beats whose missed flag a step sets.
NewlyMissed ==
    {i \in 1 .. Len(beatsRef) :
        /\ Len(beatsRef') = Len(beatsRef)
        /\ ~beatsRef[i].missed
        /\ beatsRef'[i].missed}

\* The step is a press of lane l that passed the guards of handleLaneInput:
\* only such a step arms a release timeout of lane l.
PressedLane(l) == laneTimers'[l] = laneTimers[l] + 1

\* The step is one run of loop.
FrameStep == frames' = frames + 1

\* The step is a start or a restart of the game.
ResetStep == gameState # "PLAYING" /\ gameState' = "PLAYING"

\* C1: a step marks a note hit only as a press of the note's lane, of a note
\* that is neither hit nor missed, at a clock time less than HIT_WINDOW away
\* from the note's time; at a distance of exactly HIT_WINDOW it is not hit.
C1_HitOnlyInWindow ==
    [][\A i \in NewlyHit :
          /\ PressedLane(beatsRef[i].lane)
          /\ ~beatsRef[i].hit
          /\ ~beatsRef[i].missed
          /\ beatsRef[i].time - getCurrentTime < 3
          /\ getCurrentTime - beatsRef[i].time < 3]_vars

\* The centre lane was pressed at clock 0, the note at time 1 was hit and
\* the centre note at time 3, at distance exactly HIT_WINDOW, was not.
C1_Witness ==
    /\ gameState = "PLAYING"
    /\ clock = 0
    /\ laneTimers[1] = 1
    /\ scoreRef = 100
    /\ \E i \in 1 .. Len(beatsRef) :
          /\ beatsRef[i].time = 3
          /\ beatsRef[i].lane = 1
          /\ ~beatsRef[i].hit
          /\ ~beatsRef[i].missed

\* C2: every hit adds 1 to combo; at a distance below PERFECT_WINDOW it adds
\* 300 to score and 10 to heat, otherwise (the distance PERFECT_WINDOW
\* included) 100 and 5; heat after the hit is min(100, heat + delta).
C2_HitRewards ==
    [][\A i \in NewlyHit :
          LET diff == Abs(beatsRef[i].time - getCurrentTime)
              delta == IF diff < 1 THEN 200 ELSE 100
          IN  /\ comboRef' = comboRef + 1
              /\ scoreRef' = scoreRef + (IF diff < 1 THEN 300 ELSE 100)
              /\ heatRef' = (IF heatRef + delta > 2000 THEN 2000 ELSE heatRef + delta)]_vars

\* Eleven perfect hits in a row: the eleventh found heat at its cap.
C2_Witness ==
    /\ comboRef = DenseLen
    /\ scoreRef = 300 * DenseLen
    /\ heatRef = 2000

\* C3: a press marks at most one note hit, and a press of a lane that has
\* an eligible note marks exactly one: the first eligible note of the chart,
\* which no eligible note precedes in time.
C3_FirstInChartOrder ==
    [][/\ Cardinality(NewlyHit) <= 1
       /\ \A l \in Lanes :
             LET now == getCurrentTime
                 E == {j \in 1 .. Len(beatsRef) :
                          /\ beatsRef[j].lane = l
                          /\ ~beatsRef[j].hit
                          /\ ~beatsRef[j].missed
                          /\ Abs(beatsRef[j].time - now) < 3}
             IN  (PressedLane(l) /\ E # {}) =>
                    \E i \in E :
                       /\ NewlyHit = {i}
                       /\ \A j \in E : i <= j /\ beatsRef[i].time <= beatsRef[j].time]_vars

\* At clock 3 the centre lane is pressed: the note at time 1 is hit although
\* the note at time 3, also eligible, is closer.
C3_Witness ==
    /\ clock = 3
    /\ laneTimers[1] = 1
    /\ \E i, j \in 1 .. Len(beatsRef) :
          /\ i < j
          /\ beatsRef[i].lane = 1 /\ beatsRef[i].time = 1 /\ beatsRef[i].hit
          /\ beatsRef[j].lane = 1 /\ beatsRef[j].time = 3
          /\ ~beatsRef[j].hit /\ ~beatsRef[j].missed
          /\ \A k \in 1 .. Len(beatsRef) : (k # i) => ~beatsRef[k].hit

\* The phase the program has set: the queued game state when there is one.
Phase == IF pendingGameState # "NONE" THEN pendingGameState ELSE gameState

\* The unhit, unmissed beats of lane l within HIT_WINDOW of the clock.
Eligible(l) ==
    {j \in 1 .. Len(beatsRef) :
        /\ beatsRef[j].lane = l
        /\ ~beatsRef[j].hit
        /\ ~beatsRef[j].missed
        /\ Abs(beatsRef[j].time - getCurrentTime) < 3}

\* C4: a press leaves score, combo, heat and every hit and missed flag
\* unchanged when the phase is not PLAYING (also right after the frame that
\* set FINISHED), when the clock is negative, or when its lane has no
\* eligible note.
C4_PressIgnored ==
    [][/\ (NewlyHit # {}) => (Phase = "PLAYING" /\ getCurrentTime >= 0)
       /\ \A l \in Lanes :
             (PressedLane(l) /\ Eligible(l) = {}) =>
                UNCHANGED <<scoreRef, comboRef, heatRef, beatsRef>>]_vars

\* C5: a step that is no start and no restart keeps the chart and changes no
\* flag of a note that is hit or missed; a start or restart clears them all.
C5_Terminal ==
    [][IF ResetStep
       THEN \A i \in 1 .. Len(beatsRef') : ~beatsRef'[i].hit /\ ~beatsRef'[i].missed
       ELSE /\ Len(beatsRef') = Len(beatsRef)
            /\ \A i \in 1 .. Len(beatsRef) :
                  (beatsRef[i].hit \/ beatsRef[i].missed) =>
                     /\ beatsRef'[i].hit = beatsRef[i].hit
                     /\ beatsRef'[i].missed = beatsRef[i].missed]_vars

\* A hit note and a missed note, with further frames run and a key pressed
\* after the window of both has passed.
C5_Witness ==
    /\ gameState = "PLAYING"
    /\ frames >= 2
    /\ laneTimers[1] = 1
    /\ \E i, j \in 1 .. Len(beatsRef) :
          /\ beatsRef[i].hit /\ ~beatsRef[i].missed
          /\ beatsRef[j].missed /\ ~beatsRef[j].hit
          /\ clock > beatsRef[i].time + 3
          /\ clock > beatsRef[j].time + 3

\* C6: no note is both hit and missed.
C6_Exclusive ==
    \A i \in 1 .. Len(beatsRef) : ~(beatsRef[i].hit /\ beatsRef[i].missed)

\* A sweep has marked a note missed that is no earlier than a hit note: the
\* sweep ran past the hit note's window and left it alone.
C6_Witness ==
    \E i, j \in 1 .. Len(beatsRef) :
        /\ beatsRef[i].hit
        /\ beatsRef[j].missed
        /\ beatsRef[j].time >= beatsRef[i].time
        /\ frames >= 1

\* C7: a frame that runs the miss check (clock above 0, song not over) marks
\* missed exactly the unhit, unmissed notes with now > time + HIT_WINDOW;
\* with k of them, k > 0, combo becomes 0 and the decayed heat loses 15 k
\* times, floored at 0.
C7_MissSweep ==
    [][(FrameStep /\ pendingGameState' = pendingGameState /\ getCurrentTime > 0) =>
          LET now == getCurrentTime
              M == {i \in 1 .. Len(beatsRef) :
                       /\ ~beatsRef[i].hit
                       /\ ~beatsRef[i].missed
                       /\ now > beatsRef[i].time + 3}
              k == Cardinality(M)
              h == IF heatRef - 3 < 0 THEN 0 ELSE heatRef - 3
          IN  /\ beatsRef' = [i \in 1 .. Len(beatsRef) |->
                                 IF i \in M
                                 THEN [beatsRef[i] EXCEPT !.missed = TRUE]
                                 ELSE beatsRef[i]]
              /\ comboRef' = (IF k > 0 THEN 0 ELSE comboRef)
              /\ heatRef' = (IF h - 300 * k < 0 THEN 0 ELSE h - 300 * k)]_vars

\* All notes at time 2 but two were hit perfectly; the first frame, at clock
\* 6, missed the two in one sweep and took the penalty twice, and left alone
\* the note at time 4, whose window was not over.
C7_Witness ==
    /\ frames = 1
    /\ clock = 6
    /\ comboRef = 0
    /\ \E j \in 1 .. Len(beatsRef) :
          beatsRef[j].time = 4 /\ ~beatsRef[j].hit /\ ~beatsRef[j].missed
    /\ Cardinality({i \in 1 .. Len(beatsRef) : beatsRef[i].missed}) = 2
    /\ Cardinality({i \in 1 .. Len(beatsRef) : beatsRef[i].hit}) = DenseLen - 2
    /\ heatRef = 200 * (DenseLen - 2) - 3 - 600

\* C8: heat is within [0, 100] and score and combo are natural numbers.
C8_Ranges ==
    /\ heatRef \in 0 .. 2000
    /\ scoreRef \in Nat
    /\ comboRef \in Nat
    /\ heat \in 0 .. 2000
    /\ score \in Nat
    /\ combo \in Nat

\* After a restart: ten perfect hits and one great hit met the cap, then a
\* sweep that missed nothing.
C8_Witness ==
    /\ gameState = "PLAYING"
    /\ frames = 1
    /\ scoreRef = 300 * (DenseLen - 1) + 100
    /\ comboRef = DenseLen
    /\ heatRef = 2000 - 3

\* C9: but for a start or restart, a frame leaves score unchanged and any
\* other step leaves it unchanged or adds exactly 100 or 300.
C9_ScoreMonotone ==
    [][(~ResetStep) =>
          /\ FrameStep => scoreRef' = scoreRef
          /\ scoreRef' \in {scoreRef, scoreRef + 100, scoreRef + 300}]_vars

\* A perfect and a great hit, and frames run since.
C9_Witness ==
    /\ scoreRef = 400
    /\ frames >= 2
    /\ gameState = "FINISHED"

\* C10: a frame computes tier 0 for combo < 10, 1 for 10..29, 2 for 30..49
\* and 3 from 50 on.
C10_Tier ==
    [][FrameStep =>
          /\ tier' = (IF comboRef < 10 THEN 0
                      ELSE IF comboRef <= 29 THEN 1
                      ELSE IF comboRef <= 49 THEN 2
                      ELSE 3)
          /\ (comboRef = 9 => tier' = 0)
          /\ (comboRef = 10 => tier' = 1)
          /\ (comboRef = 29 => tier' = 1)
          /\ (comboRef = 30 => tier' = 2)
          /\ (comboRef = 49 => tier' = 2)
          /\ (comboRef = 50 => tier' = 3)]_vars

\* A frame has run at combo 50.
C10_Witness ==
    /\ frames = 1
    /\ comboRef = 50
    /\ scoreRef = 300 * 50
    /\ tier = 3

\* The step is a successful startGame from the setup screen.
StartStep == gameState = "SETUP" /\ gameState' = "PLAYING"

\* The step is the replay button.
RestartStep == gameState = "FINISHED" /\ gameState' = "PLAYING"

\* The changes of phase the state machine allows.
AllowedPhaseChanges ==
    {<<"SETUP", "PLAYING">>, <<"PLAYING", "FINISHED">>,
     <<"FINISHED", "SETUP">>, <<"FINISHED", "PLAYING">>}

\* C11: the phase (as set, and as rendered) only changes SETUP->PLAYING,
\* PLAYING->FINISHED, FINISHED->SETUP or FINISHED->PLAYING; the change to
\* FINISHED is set by a frame and the other three by a button.
C11_PhaseChanges ==
    [][/\ (Phase' # Phase) => <<Phase, Phase'>> \in AllowedPhaseChanges
       /\ (gameState' # gameState) => <<gameState, gameState'>> \in AllowedPhaseChanges
       /\ (Phase = "PLAYING" /\ Phase' = "FINISHED") => FrameStep
       /\ (Phase' # Phase /\ Phase' # "FINISHED") => ~FrameStep]_vars

\* Back on the setup screen after a song that was played to its end.
C11_Witness ==
    /\ gameState = "SETUP"
    /\ pendingGameState = "NONE"
    /\ frames >= 1
    /\ Len(beatsRef) > 0
    /\ ~source

C13_NoFrameOutsidePlaying ==
    [][/\ FrameStep => (Phase = "PLAYING" /\ gameState = "PLAYING")
       /\ (Phase' # "PLAYING") => ~frameRequested'
       /\ (Phase' = "FINISHED" /\ Phase # "FINISHED") => Phase = "PLAYING"]_vars

\* The finishing frame has run, React has not rendered yet, and frames
\* remain in the budget, yet none is requested.
C13_Witness ==
    /\ gameState = "PLAYING"
    /\ pendingGameState = "FINISHED"
    /\ ~frameRequested
    /\ frames < MaxFrames

\* The chart's notes are the same, in the same order, but for their flags.
SameNotes(a, b) ==
    /\ Len(a) = Len(b)
    /\ \A i \in 1 .. Len(a) :
          /\ a[i].time = b[i].time
          /\ a[i].lane = b[i].lane
          /\ a[i].id = b[i].id

\* C14: the replay button zeroes score, combo and heat, clears both flags
\* of every note and keeps the notes' time, lane and order; the values it
\* assigns are a fixed point of the reset, so a second replay right after
\* yields the same state.
C14_Restart ==
    [][RestartStep =>
          /\ scoreRef' = 0 /\ comboRef' = 0 /\ heatRef' = 0
          /\ score' = 0 /\ combo' = 0 /\ heat' = 0
          /\ SameNotes(beatsRef', beatsRef)
          /\ \A i \in 1 .. Len(beatsRef') :
                ~beatsRef'[i].hit /\ ~beatsRef'[i].missed
          /\ beatsRef' = [i \in 1 .. Len(beatsRef') |-> ResetBeat(beatsRef'[i])]
          /\ clock' = -PLAY_DELAY /\ source' /\ frameRequested'
          /\ gameState' = "PLAYING" /\ pendingGameState' = "NONE"]_vars

\* Just after a replay of a song in which the combo had reached tier 1:
\* the tier is the one value the replay leaves alone.
C14_Witness ==
    /\ gameState = "PLAYING"
    /\ clock = -PLAY_DELAY
    /\ frames = 0
    /\ tier = 1
    /\ scoreRef = 0 /\ comboRef = 0 /\ heatRef = 0
    /\ Len(beatsRef) > 0
    /\ \A i \in 1 .. Len(beatsRef) : ~beatsRef[i].hit /\ ~beatsRef[i].missed

\* C15: on the setup screen the phase, the chart, score, combo, heat and
\* the audio clock change only by a start that found the audio ready and
\* the chart text parsing to an array; a failing start changes none.
C15_FailedStart ==
    [][(/\ gameState = "SETUP"
        /\ <<gameState, pendingGameState, beatsRef, scoreRef, comboRef,
             heatRef, score, combo, heat, source, clock, frameRequested>>'
           # <<gameState, pendingGameState, beatsRef, scoreRef, comboRef,
               heatRef, score, combo, heat, source, clock, frameRequested>>)
       => (isReady /\ rawBeatsInput.kind = "array" /\ StartStep)]_vars

\* The setup screen after a played song, with a chart text that does not
\* parse: a start here fails and the old chart and score are still there.
C15_Witness ==
    /\ gameState = "SETUP"
    /\ StartFails
    /\ isReady
    /\ rawBeatsInput.kind = "invalid"
    /\ Len(beatsRef) > 0
    /\ scoreRef > 0

\* C16: every note of the loaded chart has a lane in {0,1,2}.
C16_LaneInRange ==
    \A i \in 1 .. Len(beatsRef) : beatsRef[i].lane \in Lanes

\* C17: the phase goes from SETUP to PLAYING only when the audio is ready
\* and the chart text parses to a non-empty array.
C17_NonEmptyStart ==
    [][StartStep =>
          /\ isReady
          /\ rawBeatsInput.kind = "array"
          /\ Len(rawBeatsInput.items) > 0]_vars

\* The notes are in ascending time, those of equal time in input order.
SortedStable(b) ==
    \A i, j \in 1 .. Len(b) :
        i < j => \/ b[i].time < b[j].time
                 \/ (b[i].time = b[j].time /\ b[i].id < b[j].id)

\* C18: a successful start loads every entry of the input once, sorted
\* ascending by time with equal times in input order; afterwards no step
\* other than a start changes the order or any note's time or lane.
C18_SortedChart ==
    [][/\ SortedStable(beatsRef')
       /\ StartStep =>
             /\ Len(beatsRef') = Len(rawBeatsInput.items)
             /\ \A k \in 1 .. Len(rawBeatsInput.items) :
                   \E i \in 1 .. Len(beatsRef') :
                       /\ beatsRef'[i].id = k - 1
                       /\ beatsRef'[i].time = rawBeatsInput.items[k].time
       /\ ~StartStep => SameNotes(beatsRef', beatsRef)]_vars

\* The unsorted input was loaded: its first entry is now last, the three
\* entries of equal time keep their input order, and play has gone on.
C18_Witness ==
    /\ Len(beatsRef) = 4
    /\ beatsRef[1].id = 1 /\ beatsRef[2].id = 2 /\ beatsRef[3].id = 3
    /\ beatsRef[4].id = 0
    /\ \E i \in 1 .. 4 : beatsRef[i].hit
    /\ \E i \in 1 .. 4 : beatsRef[i].missed

\* The two runs have hit the same notes.
TwinSameHits ==
    /\ Len(twin.beats) = Len(beatsRef)
    /\ \A i \in 1 .. Len(beatsRef) : twin.beats[i].hit = beatsRef[i].hit

\* Both runs have run their last frame.
BothEnded == Phase = "FINISHED" /\ RunPhase(twin) = "FINISHED"

\* C19 as stated: two runs of one chart with the same presses, differing
\* only in the clock times of their frames, end the song with the same hit
\* and missed flags, the same score and the same combo.
C19_FrameRateIndependent ==
    BothEnded =>
        /\ twin.beats = beatsRef
        /\ twin.score = scoreRef
        /\ twin.combo = comboRef

\* C19 amended: two such runs, pressed only while both are playing, agree
\* at every moment on the hit flag of every note and on the score.
C19_SameHitsAndScore ==
    /\ TwinSameHits
    /\ twin.score = scoreRef

\* Both runs have ended with the same notes hit, and their combos differ.
C19_Witness ==
    /\ BothEnded
    /\ scoreRef > 0
    /\ twin.combo # comboRef

\* The game state of the two runs is the same.
TwinAgrees ==
    /\ twin.beats = beatsRef
    /\ twin.score = scoreRef
    /\ twin.combo = comboRef
    /\ twin.heat = heatRef
    /\ twin.gameState = gameState
    /\ twin.pendingGameState = pendingGameState

\* C20: two runs with the same frames and presses and any random draws
\* have the same score, combo, heat and note flags after every step, and
\* a hit is rated BLOOM only when it is closer than 0.05 s to its note
\* and the combo before it is above 30.
C20_BloomPresentationOnly ==
    [][/\ TwinAgrees'
       /\ \A i \in NewlyHit :
             rating' = "BLOOM" =>
                 /\ Abs(beatsRef[i].time - getCurrentTime) < 1
                 /\ comboRef > 30]_vars

\* The same hit was rated BLOOM in one run and PERFECT in the other.
C20_Witness ==
    /\ TwinAgrees
    /\ rating = "BLOOM"
    /\ twin.rating = "PERFECT"
    /\ comboRef > 31

\* C21: once the game is PLAYING with a loaded duration above 0, and the
\* clock keeps advancing and frames keep running, the phase becomes
\* FINISHED.
C21_EventuallyFinished ==
    (gameState = "PLAYING" /\ getDuration > 0) ~> (Phase = "FINISHED")

\* A frame has set FINISHED after more frames than the bounded
\* specifications allow and with notes swept on the way.
C21_Witness ==
    /\ pendingGameState = "FINISHED"
    /\ frames = MaxFrames
    /\ getDuration > 0
    /\ Len(beatsRef) > 0
    /\ \A i \in 1 .. Len(beatsRef) :
          beatsRef[i].time + HIT_WINDOW <= getDuration + FINISH_TAIL
              => beatsRef[i].missed

\* C22: the frame that sets FINISHED has swept first: it leaves no note
\* unhit and unmissed whose window ended before the clock time it read.
C22_SweepBeforeFinish ==
    [][(Phase = "PLAYING" /\ Phase' = "FINISHED") =>
          \A i \in 1 .. Len(beatsRef') :
              ~(/\ ~beatsRef'[i].hit
                /\ ~beatsRef'[i].missed
                /\ beatsRef'[i].time + 3 < getCurrentTime)]_vars

\* C23: after every frame and after every replay the published tier is
\* the tier of the published combo.
C23_TierOfCombo ==
    [][(FrameStep \/ RestartStep) => tier' = getTierFromRef(combo')]_vars

\* C24: every frame lowers heat by 0.15, floored at 0, before the miss
\* penalties (15 each, floored at 0); a frame without a miss changes heat
\* by nothing else.
C24_HeatDecay ==
    [][FrameStep =>
          heatRef' = Max(0, Max(0, heatRef - 3) - 300 * Cardinality(NewlyMissed))]_vars

\* The one frame of this play-through was the finishing frame, after one
\* hit: the heat is the hit's reward less one decay.
C24_Witness ==
    /\ pendingGameState = "FINISHED"
    /\ frames = 1
    /\ heatRef \in {97, 197}

\* The number of notes whose hit flag is set.
HitCount == Cardinality({i \in 1 .. Len(beatsRef) : beatsRef[i].hit})

\* C27: with H the number of hit notes, the score is a multiple of 100
\* between 100 * H and 300 * H, and combo <= H <= the number of notes.
C27_ScoreComboBounds ==
    /\ scoreRef % 100 = 0
    /\ 100 * HitCount <= scoreRef
    /\ scoreRef <= 300 * HitCount
    /\ comboRef <= HitCount
    /\ HitCount <= Len(beatsRef)
    /\ score % 100 = 0
    /\ 100 * HitCount <= score
    /\ score <= 300 * HitCount
    /\ combo <= HitCount

\* Two hits, one perfect and one not, with a miss swept in between.
C27_Witness ==
    /\ HitCount = 2
    /\ scoreRef = 400
    /\ comboRef = 1
    /\ \E i \in 1 .. Len(beatsRef) : beatsRef[i].missed

\* C25: after an accepted press on a lane only the reset armed by that
\* press is pending, and the lane's flag is set as long as a reset is
\* pending, so no reset of an earlier press clears the flag early.
C25_LaneFlagRearmed ==
    [][\A l \in Lanes :
          /\ PressedLane(l) => laneTimers'[l] = 1
          /\ laneTimers'[l] > 0 => activeLanesRef'[l]]_vars

\* A note that is marked missed is out of the hit window for good.
MissedOutOfWindow(beats) ==
    \A i \in 1 .. Len(beats) :
        beats[i].missed => clock > beats[i].time + HIT_WINDOW

\* C26 as stated: the sweep takes no hit away, so two runs of one chart
\* with the same presses, whatever the interleaving of their frames with
\* the presses, end with the same notes hit and the same score.
C26_SameHitsAnyInterleaving ==
    BothEnded => (TwinSameHits /\ twin.score = scoreRef)

\* C26 amended: a missed note is out of the hit window for good, and as
\* long as neither run has run its finishing frame every step keeps the
\* two runs' hit flags and scores the same.
C26_SweepKeepsHits ==
    [][/\ MissedOutOfWindow(beatsRef')
       /\ MissedOutOfWindow(twin'.beats)
       /\ (/\ Phase = "PLAYING"
           /\ RunPhase(twin) = "PLAYING"
           /\ TwinSameHits
           /\ twin.score = scoreRef)
          => (TwinSameHits' /\ twin'.score = scoreRef')]_vars

\* Both runs have ended with the same note hit, the first note swept in
\* one run and not in the other.
C26_Witness ==
    /\ BothEnded
    /\ TwinSameHits
    /\ twin.score = scoreRef
    /\ scoreRef > 0
    /\ \E i \in 1 .. Len(beatsRef) :
          beatsRef[i].missed /\ ~twin.beats[i].missed

====
